---- MODULE Spec2Model ----
(***************************************************************************)
(* A model of TravelAgent.py: the pipeline of main() and the functions it  *)
(* calls.  Strings that the code trims, lowercases or compares are         *)
(* sequences of characters; dates are proleptic Gregorian ordinals, as     *)
(* datetime.date keeps them; JSON objects and SDK dictionaries are         *)
(* functions whose domain is the set of keys present; Optional values are  *)
(* None (the empty tuple) or a one-element tuple.                          *)
(***************************************************************************)
EXTENDS Integers, Sequences, FiniteSets, TLC

VARIABLES
    pc,           \* the statement of main() that runs next
    outcome,      \* "running", "presented", "returned" (line 182) or "raised"
    exc,          \* the exception that left main(), or None
    airports,     \* the airport table: a sequence of [code, info] in iteration order
    today,        \* datetime.now().date()
    token,        \* os.getenv('EVENTBRITE_TOKEN')
    parsed,       \* what parse_user_request returned
    req,          \* the UserRequest after ensure_dates
    orig_code,    \* find_iata(req.origin)
    dest_code,    \* find_iata(req.destination)
    flight_resp,  \* what the flight provider answered
    flights,
    event_resp,   \* what the event provider answered
    events,
    geo_resp,     \* what the geocoder answered
    poi_resp,     \* what the points-of-interest provider answered
    restaurants,
    prompt,       \* the prompt build_itinerary_text sends to the generator
    itinerary,    \* what build_itinerary_text returned
    printed,      \* what main() wrote to standard output
    reported,     \* the place named in the error main() logs at line 181
    calls         \* the external calls made so far, in order

vars == <<pc, outcome, exc, airports, today, token, parsed, req, orig_code,
          dest_code, flight_resp, flights, event_resp, events, geo_resp,
          poi_resp, restaurants, prompt, itinerary, printed, reported,
          calls>>

-----------------------------------------------------------------------------
(* Python values *)

None == <<>>

Some(v) == <<v>>

Return(v) == [kind |-> "return", val |-> v]

Raise(e) == [kind |-> "raise", exc |-> e]

\* d.get(k, default)
Get(d, k, default) == IF k \in DOMAIN d THEN d[k] ELSE default

\* date.min.toordinal() and date.max.toordinal()
DateMin == 1

DateMax == 3652059

\* timedelta(weeks=2) and timedelta(days=7), in days
StartDefaultDays == 14

EndDefaultDays == 7

\* date + timedelta: OverflowError outside date.min .. date.max
DateAdd(d, days) ==
    IF d + days >= DateMin /\ d + days <= DateMax
    THEN Return(d + days)
    ELSE Raise("OverflowError")

-----------------------------------------------------------------------------
(* Strings as sequences of characters *)

\* the whitespace of the modelled alphabet
Whitespace == {" "}

LowerChar(c) ==
    CASE c = "P" -> "p"
      [] c = "Q" -> "q"
      [] OTHER -> c

\* str.lower()
Lower(s) == [i \in 1..Len(s) |-> LowerChar(s[i])]

RECURSIVE LStrip(_)
LStrip(s) ==
    IF s # <<>> /\ Head(s) \in Whitespace THEN LStrip(Tail(s)) ELSE s

RECURSIVE RStrip(_)
RStrip(s) ==
    IF s # <<>> /\ s[Len(s)] \in Whitespace
    THEN RStrip(SubSeq(s, 1, Len(s) - 1))
    ELSE s

\* str.strip()
Strip(s) == RStrip(LStrip(s))

-----------------------------------------------------------------------------
(* ensure_dates *)

\* a slip: the default end counted from today, not from the start
ensure_dates_from_today(r, now) ==
    LET s == IF r.start_date = None
             THEN DateAdd(now, StartDefaultDays)
             ELSE Return(r.start_date[1])
    IN  IF s.kind = "raise" THEN s
        ELSE LET e == IF r.end_date = None
                      THEN DateAdd(now, EndDefaultDays)
                      ELSE Return(r.end_date[1])
             IN  IF e.kind = "raise" THEN e
                 ELSE Return([r EXCEPT !.start_date = Some(s.val),
                                       !.end_date = Some(e.val)])

ensure_dates(r, now) ==
    LET s == IF r.start_date = None
             THEN DateAdd(now, StartDefaultDays)
             ELSE Return(r.start_date[1])
    IN  IF s.kind = "raise" THEN s
        ELSE LET e == IF r.end_date = None
                      THEN DateAdd(s.val, EndDefaultDays)
                      ELSE Return(r.end_date[1])
             IN  IF e.kind = "raise" THEN e
                 ELSE Return([r EXCEPT !.start_date = Some(s.val),
                                       !.end_date = Some(e.val)])

-----------------------------------------------------------------------------
(* find_iata *)

\* info.get('city', '').lower() == city_lower
CityMatches(info, city_lower) == Lower(Get(info, "city", <<>>)) = city_lower

RECURSIVE ScanAirports(_, _, _)
ScanAirports(table, i, city_lower) ==
    IF i > Len(table) THEN Raise("KeyError")
    ELSE IF CityMatches(table[i].info, city_lower) THEN Return(table[i].code)
    ELSE ScanAirports(table, i + 1, city_lower)

\* a slip: the input lowercased but not trimmed
find_iata_no_strip(table, city_name) == ScanAirports(table, 1, Lower(city_name))

\* a slip: a default code instead of the KeyError
find_iata_sentinel(table, city_name) ==
    LET out == ScanAirports(table, 1, Lower(Strip(city_name))) IN
    IF out.kind = "raise" THEN Return("XXX") ELSE out

find_iata(table, city_name) == ScanAirports(table, 1, Lower(Strip(city_name)))

-----------------------------------------------------------------------------
(* search_flights *)

\* 'max': 3 in the request, data[:3], len(names) >= 3
FlightsRequested == 3

EventsKept == 3

RestaurantsKept == 3

\* d[k]: KeyError when the key is missing
Item(d, k) == IF k \in DOMAIN d THEN Return(d[k]) ELSE Raise("KeyError")

\* l[0]: IndexError when the list is empty
First(l) == IF Len(l) = 0 THEN Raise("IndexError") ELSE Return(l[1])

\* offer['itineraries'][0]['segments'][0]
FirstSegment(offer) ==
    LET its == Item(offer, "itineraries") IN
    IF its.kind = "raise" THEN its ELSE
    LET it == First(its.val) IN
    IF it.kind = "raise" THEN it ELSE
    LET segs == Item(it.val, "segments") IN
    IF segs.kind = "raise" THEN segs ELSE First(segs.val)

\* f"{seg['carrierCode']}{seg['number']} on {seg['departure']['at']}"
FlightDescriptor(offer) ==
    LET seg == FirstSegment(offer) IN
    IF seg.kind = "raise" THEN seg ELSE
    LET carrier == Item(seg.val, "carrierCode") IN
    IF carrier.kind = "raise" THEN carrier ELSE
    LET number == Item(seg.val, "number") IN
    IF number.kind = "raise" THEN number ELSE
    LET departure == Item(seg.val, "departure") IN
    IF departure.kind = "raise" THEN departure ELSE
    LET at == Item(departure.val, "at") IN
    IF at.kind = "raise" THEN at
    ELSE Return(<<carrier.val, number.val, " on ", at.val>>)

\* for offer in resp.data or []: flights.append(...)
RECURSIVE AppendFlights(_, _, _)
AppendFlights(data, i, acc) ==
    IF i > Len(data) THEN Return(acc)
    ELSE LET d == FlightDescriptor(data[i]) IN
         IF d.kind = "raise" THEN d
         ELSE AppendFlights(data, i + 1, Append(acc, d.val))

\* the provider's answer is Raise("ResponseError") (every failure the SDK
\* reports) or Return(data), data being None or Some(list of offers)
search_flights(resp) ==
    LET body == IF resp.kind = "raise" THEN resp
                ELSE AppendFlights(IF resp.val = None THEN <<>> ELSE resp.val[1],
                                   1, <<>>)
    IN  IF body.kind = "raise" /\ body.exc = "ResponseError"
        THEN Return(<<>>)
        ELSE body

-----------------------------------------------------------------------------
(* search_events *)

\* a JSON value that is no object
JsonNull == [json_null |-> TRUE]

IsDict(x) == "json_null" \notin DOMAIN x

\* x.get(...): AttributeError when x is no dict
DictGet(x, k, default) ==
    IF IsDict(x) THEN Return(Get(x, k, default)) ELSE Raise("AttributeError")

\* x[k] on a JSON value: TypeError when x is no dict
DictItem(x, k) == IF IsDict(x) THEN Item(x, k) ELSE Raise("TypeError")

\* l[:n]
Take(l, n) == SubSeq(l, 1, IF Len(l) < n THEN Len(l) ELSE n)

\* not token
Falsy(s) == s = None \/ s = Some("")

\* f"{ev['name']['text']} at {ev['start']['local']}"
EventDescriptor(ev) ==
    LET name == DictItem(ev, "name") IN
    IF name.kind = "raise" THEN name ELSE
    LET text == DictItem(name.val, "text") IN
    IF text.kind = "raise" THEN text ELSE
    LET start == DictItem(ev, "start") IN
    IF start.kind = "raise" THEN start ELSE
    LET local == DictItem(start.val, "local") IN
    IF local.kind = "raise" THEN local
    ELSE Return(<<text.val, " at ", local.val>>)

RECURSIVE EventList(_, _, _)
EventList(data, i, acc) ==
    IF i > Len(data) THEN Return(acc)
    ELSE LET d == EventDescriptor(data[i]) IN
         IF d.kind = "raise" THEN d
         ELSE EventList(data, i + 1, Append(acc, d.val))

\* r.json(): the body parsed, or ValueError
Json(r) == r.json

\* lines 111-114; http is Raise(transport error) or Return([ok, json])
EventsTry(http) ==
    IF http.kind = "raise" THEN http
    ELSE IF ~http.val.ok THEN Raise("HTTPError")
    ELSE LET j == Json(http.val) IN
         IF j.kind = "raise" THEN j ELSE
         LET data == DictGet(j.val, "events", <<>>) IN
         IF data.kind = "raise" THEN data
         ELSE EventList(Take(data.val, EventsKept), 1, <<>>)

EventsContacted(tok) == ~Falsy(tok)

search_events(tok, http) ==
    IF Falsy(tok) THEN Return(<<>>)
    ELSE LET body == EventsTry(http) IN
         IF body.kind = "raise" THEN Return(<<>>) ELSE body

-----------------------------------------------------------------------------
(* search_restaurants *)

\* a slip: the membership test dropped
Contains_never(names, x) == FALSE

\* x in names
Contains(names, x) == \E k \in 1..Len(names) : names[k] = x

\* el.get('tags', {}).get('name'): None or Some(name)
ElementName(el) ==
    LET tags == DictGet(el, "tags", <<>>) IN
    IF tags.kind = "raise" THEN tags
    ELSE IF ~IsDict(tags.val) THEN Raise("AttributeError")
    ELSE Return(IF "name" \in DOMAIN tags.val THEN Some(tags.val.name) ELSE None)

\* lines 131-136
RECURSIVE CollectNames(_, _, _)
CollectNames(elements, i, names) ==
    IF i > Len(elements) THEN Return(names)
    ELSE LET name == ElementName(elements[i]) IN
         IF name.kind = "raise" THEN name ELSE
         LET names2 == IF ~Falsy(name.val) /\ ~Contains(names, name.val[1])
                       THEN Append(names, name.val[1])
                       ELSE names
         IN  IF Len(names2) >= RestaurantsKept THEN Return(names2)
             ELSE CollectNames(elements, i + 1, names2)

\* lines 128-137; http is Raise(transport error) or Return([ok, json])
RestaurantsTry(http) ==
    IF http.kind = "raise" THEN http
    ELSE LET j == Json(http.val) IN
         IF j.kind = "raise" THEN j ELSE
         LET elements == DictGet(j.val, "elements", <<>>) IN
         IF elements.kind = "raise" THEN elements
         ELSE CollectNames(elements.val, 1, <<>>)

\* geo is Raise(geocoder error) or Return(None) or Return(Some(location))
PoiContacted(geo) == geo.kind = "return" /\ geo.val # None

search_restaurants(geo, http) ==
    IF geo.kind = "raise" THEN geo
    ELSE IF geo.val = None THEN Return(<<>>)
    ELSE LET body == RestaurantsTry(http) IN
         IF body.kind = "raise" THEN Return(<<>>) ELSE body

-----------------------------------------------------------------------------
(* build_itinerary_text *)

\* ', '.join(l)
RECURSIVE Join(_)
Join(l) ==
    IF Len(l) = 0 THEN <<>>
    ELSE IF Len(l) = 1 THEN l[1]
    ELSE l[1] \o <<", ">> \o Join(Tail(l))

\* ', '.join(l) if l else 'none'
Render(l) == IF l # <<>> THEN Join(l) ELSE <<"none">>

\* a list of names as a list of texts
Texts(names) == [i \in 1..Len(names) |-> <<names[i]>>]

\* lines 147-156; flights and events are lists of texts, restaurants of names
BuildPrompt(r, fl, ev, rs) ==
    [origin |-> r.origin, destination |-> r.destination,
     departing |-> r.start_date, returning |-> r.end_date,
     flights |-> Render(fl), events |-> Render(ev),
     restaurants |-> Render(Texts(rs))]

-----------------------------------------------------------------------------
(* The inputs: what the user, the clock, the environment and the providers *)
(* can hand to the program                                                 *)

\* datetime.now().date() ranges over FirstToday .. FirstToday + MaxTodayOffset
FirstToday == 739130

MaxTodayOffset == 1

Todays == FirstToday .. (FirstToday + MaxTodayOffset)

\* the dates a request may carry: around today, and the last days of date
TripDates ==
    {FirstToday + k : k \in {0, 14, 21, 22}}
        \cup {DateMax - EndDefaultDays, DateMax - EndDefaultDays + 1, DateMax}

OptDates == {None} \cup {Some(d) : d \in TripDates}

UserRequests(origins, destinations, starts, ends) ==
    [origin : origins, destination : destinations,
     start_date : starts, end_date : ends,
     budget : {None, Some(1000)},
     interests : {None, Some(<<"skiing">>)}]

\* the place names find_iata is asked about
PlaceNames ==
    { <<"p">>, <<"P">>, <<" ", "p">>, <<"p", " ">>, <<" ", "P", " ">>,
      <<"q">>, <<"Q">>, <<>>, <<" ">>, <<"p", "q">>, <<"p", " ", "q">>,
      <<"r">> }

\* the records of an airport table: with a city, or without the key
CityInfos ==
    { [city |-> <<"p">>], [city |-> <<"P">>], [city |-> <<"q">>],
      [city |-> <<" ", "p">>], <<>> }

Codes == {"AAA", "BBB", "CCC", "DDD"}

MaxAirports == 2

\* a dict keyed by code: no code twice
AirportTables ==
    UNION { { t \in [1..n -> [code : Codes, info : CityInfos]] :
                \A i, j \in 1..n : i # j => t[i].code # t[j].code }
            : n \in 0..MaxAirports }

\* flight offers as the SDK hands them over
Segment(carrier, number, at) ==
    [carrierCode |-> carrier, number |-> number, departure |-> [at |-> at]]

Offer(seg) == [itineraries |-> << [segments |-> <<seg>>] >>]

OfferAF == Offer(Segment("AF", "12", "2024-09-01T08:00"))

OfferBA == Offer(Segment("BA", "7", "2024-09-01T09:30"))

\* offers with a field missing or an empty list
OfferNoItineraries == [id |-> "1"]

OfferNoSegments == [itineraries |-> << [segments |-> <<>>] >>]

OfferNoCarrier ==
    Offer([number |-> "12", departure |-> [at |-> "2024-09-01T08:00"]])

FlightAnswers ==
    { Raise("ResponseError"),
      Return(None),
      Return(Some(<<>>)),
      Return(Some(<<OfferAF>>)),
      Return(Some(<<OfferAF, OfferBA, OfferAF>>)),
      Return(Some(<<OfferAF, OfferBA, OfferAF, OfferBA>>)),
      Return(Some(<<OfferAF, OfferNoItineraries>>)),
      Return(Some(<<OfferNoSegments>>)),
      Return(Some(<<OfferNoCarrier>>)) }

\* events as the provider's JSON gives them
Event(name, local) == [name |-> [text |-> name], start |-> [local |-> local]]

EventJazz == Event("Jazz", "2024-09-02T20:00")

EventFair == Event("Fair", "2024-09-03T10:00")

EventNoStart == [name |-> [text |-> "Expo"]]

\* an HTTP response: its status (ok or not) and what r.json() gives
Http(ok, json) == Return([ok |-> ok, json |-> json])

EventAnswers ==
    { Raise("ConnectionError"),
      Http(FALSE, Return([error |-> "INVALID_AUTH"])),
      Http(TRUE, Raise("ValueError")),
      Http(TRUE, Return(JsonNull)),
      Http(TRUE, Return([pagination |-> "1"])),
      Http(TRUE, Return([events |-> <<>>])),
      Http(TRUE, Return([events |-> <<EventJazz, EventFair>>])),
      Http(TRUE, Return([events |-> <<EventJazz, EventFair, EventJazz, EventFair>>])),
      Http(TRUE, Return([events |-> <<EventJazz, EventNoStart>>])) }

Tokens == {None, Some(""), Some("tok")}

\* map elements as the points-of-interest provider's JSON gives them
Element(name) == [tags |-> [name |-> name]]

ElementNoTags == [type |-> "node"]

ElementNoName == [tags |-> [amenity |-> "restaurant"]]

NamedElements == {Element("n1"), Element("n2"), Element("n3"), Element("n4")}

WellFormedElements ==
    NamedElements \cup {ElementNoTags, ElementNoName, Element("")}

MaxElements == 5

ElementLists == UNION { [1..n -> WellFormedElements] : n \in 0..MaxElements }

Location == [latitude |-> 48, longitude |-> 2]

GeoAnswers == {Raise("GeocoderTimedOut"), Return(None), Return(Some(Location))}

PoiAnswers ==
    { Raise("ConnectionError"),
      Http(FALSE, Raise("ValueError")),
      Http(TRUE, Raise("ValueError")),
      Http(TRUE, Return(JsonNull)),
      Http(TRUE, Return([remark |-> "timeout"])),
      Http(TRUE, Return([elements |-> <<>>])),
      Http(TRUE, Return([elements |->
          <<Element("n1"), ElementNoTags, Element("n1"), Element("n2"),
            Element("n3"), Element("n4")>>])),
      Http(TRUE, Return([elements |-> <<Element("n1"), JsonNull>>])),
      Http(TRUE, Return([elements |-> <<Element("n1"), [tags |-> JsonNull]>>])) }

\* the narrative generator's answers
NarrativeAnswers == {Raise("GenerationError"), Return(<<"Day 1">>)}

\* the airport table and the requests of the pipeline runs
PipelineTable ==
    << [code |-> "AAA", info |-> [city |-> <<"P">>]],
       [code |-> "BBB", info |-> [city |-> <<"q">>]] >>

PipelineRequests ==
    { r \in UserRequests({<<"p">>, <<"r">>}, {<<" ", "Q">>, <<"r">>},
                         {None, Some(FirstToday + 21)},
                         {None, Some(FirstToday + 22)}) :
        r.budget = None /\ r.interests # None }

ExtractionAnswers ==
    {Raise("GenerationError")} \cup {Return(r) : r \in PipelineRequests}

-----------------------------------------------------------------------------
(* main: one action per statement that calls out *)

environment == <<airports, today, token>>

aggregated == <<flight_resp, flights, event_resp, events, geo_resp, poi_resp,
                restaurants>>

output == <<prompt, itinerary, printed>>

Running(p) == pc = p /\ outcome = "running"

\* an exception leaves main()
Raised(e) == pc' = pc /\ outcome' = "raised" /\ exc' = Some(e)

Goto(p) == pc' = p /\ outcome' = "running" /\ exc' = exc

\* line 168: req = parse_user_request(text)
Parse(answers) ==
    /\ Running("parse")
    /\ \E out \in answers :
        /\ calls' = Append(calls, "extract")
        /\ IF out.kind = "raise"
           THEN Raised(out.exc) /\ parsed' = parsed
           ELSE Goto("normalize") /\ parsed' = Some(out.val)
    /\ UNCHANGED <<environment, req, orig_code, dest_code, aggregated, output,
                   reported>>

\* line 169: req = ensure_dates(req)
Normalize ==
    /\ Running("normalize")
    /\ LET out == ensure_dates(parsed[1], today) IN
        IF out.kind = "raise"
        THEN Raised(out.exc) /\ req' = req
        ELSE Goto("resolve") /\ req' = Some(out.val)
    /\ UNCHANGED <<environment, parsed, orig_code, dest_code, aggregated,
                   output, reported, calls>>

\* lines 171-182: the SDK client is constructed (no call goes out; the
\* construction is taken to succeed), then both lookups; a KeyError is
\* caught, logged, and main returns
Resolve ==
    /\ Running("resolve")
    /\ LET o == find_iata(airports, req[1].origin)
           d == find_iata(airports, req[1].destination)
       IN  IF o.kind = "raise"
           THEN /\ pc' = pc /\ outcome' = "returned" /\ exc' = exc
                /\ reported' = Some(req[1].origin)
                /\ UNCHANGED <<orig_code, dest_code>>
           ELSE IF d.kind = "raise"
           THEN /\ pc' = pc /\ outcome' = "returned" /\ exc' = exc
                /\ reported' = Some(req[1].destination)
                /\ orig_code' = Some(o.val)
                /\ dest_code' = dest_code
           ELSE /\ Goto("flights")
                /\ orig_code' = Some(o.val)
                /\ dest_code' = Some(d.val)
                /\ reported' = reported
    /\ UNCHANGED <<environment, parsed, req, aggregated, output, calls>>

\* lines 185-191: flights = search_flights(...)
Flights(answers) ==
    /\ Running("flights")
    /\ \E resp \in answers :
        /\ flight_resp' = Some(resp)
        /\ calls' = Append(calls, "flights")
        /\ LET out == search_flights(resp) IN
            IF out.kind = "raise"
            THEN Raised(out.exc) /\ flights' = flights
            ELSE Goto("events") /\ flights' = out.val
    /\ UNCHANGED <<environment, parsed, req, orig_code, dest_code, event_resp,
                   events, geo_resp, poi_resp, restaurants, output, reported>>

\* lines 194-199: events = search_events(...); the provider is asked only
\* when there is a token
Events(answers) ==
    /\ Running("events")
    /\ \E http \in IF EventsContacted(token) THEN answers ELSE {None} :
        /\ event_resp' = IF EventsContacted(token) THEN Some(http) ELSE None
        /\ calls' = IF EventsContacted(token)
                    THEN Append(calls, "events") ELSE calls
        /\ LET out == search_events(token, http) IN
            IF out.kind = "raise"
            THEN Raised(out.exc) /\ events' = events
            ELSE Goto("restaurants") /\ events' = out.val
    /\ UNCHANGED <<environment, parsed, req, orig_code, dest_code, flight_resp,
                   flights, geo_resp, poi_resp, restaurants, output, reported>>

\* line 200: restaurants = search_restaurants(...); the points-of-interest
\* provider is asked only when the geocoder gave a location
Restaurants(geos, pois) ==
    /\ Running("restaurants")
    /\ \E geo \in geos :
       \E http \in IF PoiContacted(geo) THEN pois ELSE {None} :
        /\ geo_resp' = Some(geo)
        /\ poi_resp' = IF PoiContacted(geo) THEN Some(http) ELSE None
        /\ calls' = IF PoiContacted(geo)
                    THEN calls \o <<"geocode", "poi">>
                    ELSE Append(calls, "geocode")
        /\ LET out == search_restaurants(geo, http) IN
            IF out.kind = "raise"
            THEN Raised(out.exc) /\ restaurants' = restaurants
            ELSE Goto("synthesize") /\ restaurants' = out.val
    /\ UNCHANGED <<environment, parsed, req, orig_code, dest_code, flight_resp,
                   flights, event_resp, events, output, reported>>

\* line 203: itinerary = build_itinerary_text(req, flights, events, restaurants)
Synthesize(answers) ==
    /\ Running("synthesize")
    /\ \E out \in answers :
        /\ prompt' = Some(BuildPrompt(req[1], flights, events, restaurants))
        /\ calls' = Append(calls, "synthesize")
        /\ IF out.kind = "raise"
           THEN Raised(out.exc) /\ itinerary' = itinerary
           ELSE Goto("present") /\ itinerary' = Some(out.val)
    /\ UNCHANGED <<environment, parsed, req, orig_code, dest_code, aggregated,
                   printed, reported>>

\* lines 204-205: the header and the itinerary are printed
Present ==
    /\ Running("present")
    /\ printed' = <<"--- Your Itinerary ---", itinerary[1]>>
    /\ pc' = "end" /\ outcome' = "presented" /\ exc' = exc
    /\ UNCHANGED <<environment, parsed, req, orig_code, dest_code, aggregated,
                   prompt, itinerary, reported, calls>>

ParseStep == Parse(ExtractionAnswers)

FlightsStep == Flights(FlightAnswers)

EventsStep == Events(EventAnswers)

RestaurantsStep == Restaurants(GeoAnswers, PoiAnswers)

SynthesizeStep == Synthesize(NarrativeAnswers)

\* nothing computed yet
Fresh ==
    /\ outcome = "running" /\ exc = None
    /\ flight_resp = None /\ flights = <<>>
    /\ event_resp = None /\ events = <<>>
    /\ geo_resp = None /\ poi_resp = None /\ restaurants = <<>>
    /\ prompt = None /\ itinerary = None /\ printed = <<>>
    /\ reported = None

\* line 167: the request has been read
Init ==
    /\ pc = "parse"
    /\ airports = PipelineTable
    /\ today \in Todays
    /\ token \in Tokens
    /\ parsed = None /\ req = None
    /\ orig_code = None /\ dest_code = None
    /\ calls = <<>>
    /\ Fresh

Next ==
    \/ ParseStep
    \/ Normalize
    \/ Resolve
    \/ FlightsStep
    \/ EventsStep
    \/ RestaurantsStep
    \/ SynthesizeStep
    \/ Present

Spec == Init /\ [][Next]_vars

-----------------------------------------------------------------------------
(* ensure_dates on its own: every request, the run standing at line 169 *)

InitDates ==
    /\ pc = "normalize"
    /\ airports = PipelineTable
    /\ today \in Todays
    /\ token = None
    /\ parsed \in {Some(r) : r \in UserRequests({<<"p">>}, {<<"q">>},
                                                OptDates, OptDates)}
    /\ req = None
    /\ orig_code = None /\ dest_code = None
    /\ calls = <<"extract">>
    /\ Fresh

NextDates == Normalize

SpecDates == InitDates /\ [][NextDates]_vars

(* find_iata on its own: every table and place name, the run standing at  *)
(* line 177                                                                *)

NormalizedRequests(origins, destinations) ==
    { r \in UserRequests(origins, destinations,
                         {Some(FirstToday + 14)}, {Some(FirstToday + 21)}) :
        r.budget = None /\ r.interests # None }

InitIata ==
    /\ pc = "resolve"
    /\ airports \in AirportTables
    /\ today = FirstToday
    /\ token = None
    /\ parsed \in {Some(r) : r \in NormalizedRequests(PlaceNames,
                                                      {<<"p">>, <<"q">>})}
    /\ req = parsed
    /\ orig_code = None /\ dest_code = None
    /\ calls = <<"extract">>
    /\ Fresh

NextIata == Resolve

SpecIata == InitIata /\ [][NextIata]_vars

(* search_restaurants on its own: every list of well-formed elements, the  *)
(* run standing at line 200                                                *)

InitRestaurants ==
    /\ pc = "restaurants"
    /\ airports = PipelineTable
    /\ today = FirstToday
    /\ token = None
    /\ parsed \in {Some(r) : r \in NormalizedRequests({<<"p">>}, {<<"q">>})}
    /\ req = parsed
    /\ orig_code = Some("AAA") /\ dest_code = Some("BBB")
    /\ outcome = "running" /\ exc = None
    /\ flight_resp = Some(Return(Some(<<>>))) /\ flights = <<>>
    /\ event_resp = None /\ events = <<>>
    /\ geo_resp = None /\ poi_resp = None /\ restaurants = <<>>
    /\ prompt = None /\ itinerary = None /\ printed = <<>>
    /\ reported = None
    /\ calls = <<"extract", "flights">>

ElementAnswers == {Http(TRUE, Return([elements |-> l])) : l \in ElementLists}

NextRestaurants == Restaurants({Return(Some(Location))}, ElementAnswers)

SpecRestaurants == InitRestaurants /\ [][NextRestaurants]_vars

-----------------------------------------------------------------------------
(* The claims *)

Min(a, b) == IF a < b THEN a ELSE b

\* the request before and after ensure_dates
Given == parsed[1]

Normal == req[1]

\* C1, as stated: after ensure_dates returns, both dates are present and
\* end_date is not earlier than start_date, whatever the request carried.
C1Original ==
    req # None =>
        /\ Normal.start_date # None
        /\ Normal.end_date # None
        /\ Normal.end_date[1] >= Normal.start_date[1]

\* C1, amended: after ensure_dates returns, both dates are present, and
\* end_date is not earlier than start_date whenever the request carried no
\* end_date; an end_date the request carried is kept as it is.
C1Amended ==
    req # None =>
        /\ Normal.start_date # None
        /\ Normal.end_date # None
        /\ Given.end_date = None =>
               Normal.end_date[1] >= Normal.start_date[1]
        /\ Given.end_date # None => Normal.end_date = Given.end_date

\* a request with a start_date and no end_date has been normalized
C1Witness ==
    /\ req # None
    /\ Given.start_date = Some(FirstToday + 21)
    /\ Given.end_date = None
    /\ Normal.end_date = Some(FirstToday + 21 + EndDefaultDays)

\* the dates the claim C7 gives, computed on the integers
C7Expected(r, now) ==
    LET s == IF r.start_date = None THEN now + StartDefaultDays
             ELSE r.start_date[1]
        e == IF r.end_date = None THEN s + EndDefaultDays ELSE r.end_date[1]
    IN  [r EXCEPT !.start_date = Some(s), !.end_date = Some(e)]

\* C7, as stated: for every request ensure_dates returns, with start_date the
\* given one or today + 14 days, end_date the given one or the normalized
\* start_date + 7 days, and the other fields unchanged.
C7Claim ==
    \/ Running("normalize")
    \/ /\ outcome = "running"
       /\ req = Some(C7Expected(Given, today))

\* the place name of the i-th record, '' when it has none
CityOf(i) == Get(airports[i].info, "city", <<>>)

\* the input after trimming whitespace and lowercasing
Key(name) == Lower(Strip(name))

\* the record's place name, as it stands, equals the input's key
RawMatch(i, name) == CityOf(i) = Key(name)

\* the record's place name, lowercased, equals the input's key
FoldMatch(i, name) == Lower(CityOf(i)) = Key(name)

\* what counts as a match: the place name lowercased (fold) or as it stands
Match(fold, i, name) == IF fold THEN FoldMatch(i, name) ELSE RawMatch(i, name)

\* code is the identifier of the first record that matches
FirstOf(fold, name, code) ==
    \E i \in 1..Len(airports) :
        /\ Match(fold, i, name)
        /\ \A j \in 1..(i - 1) : ~Match(fold, j, name)
        /\ code = Some(airports[i].code)

NoneOf(fold, name) == \A i \in 1..Len(airports) : ~Match(fold, i, name)

\* what lines 177-182 leave behind, given what counts as a match
ResolvedBy(fold) ==
    /\ pc = "flights" =>
        /\ FirstOf(fold, Normal.origin, orig_code)
        /\ FirstOf(fold, Normal.destination, dest_code)
    /\ outcome = "returned" =>
        \/ /\ reported = Some(Normal.origin)
           /\ NoneOf(fold, Normal.origin)
           /\ orig_code = None /\ dest_code = None
        \/ /\ reported = Some(Normal.destination)
           /\ FirstOf(fold, Normal.origin, orig_code)
           /\ NoneOf(fold, Normal.destination)
           /\ dest_code = None

\* names that differ only in case or surrounding whitespace resolve alike
CaseAndSpaceBlind ==
    req # None =>
        \A m \in PlaceNames :
            Key(m) = Key(Normal.origin) =>
                find_iata(airports, m) = find_iata(airports, Normal.origin)

\* C9, as stated: find_iata returns the first identifier whose place name
\* equals the trimmed, lowercased input, and fails with not-found (no default
\* code) when no record's place name equals it.
C9Original == ResolvedBy(FALSE) /\ CaseAndSpaceBlind

\* C9, amended: find_iata returns the first identifier, in table order, whose
\* place name, itself lowercased ('' for a record without one), equals the
\* trimmed, lowercased input; inputs that differ only in case or surrounding
\* whitespace resolve alike; with no such record it fails with not-found and
\* returns no code.
C9Amended == ResolvedBy(TRUE) /\ CaseAndSpaceBlind

\* " P " resolved to the first of two records that both match it
C9Witness ==
    /\ pc = "flights"
    /\ Normal.origin = <<" ", "P", " ">>
    /\ Len(airports) = 2
    /\ FoldMatch(1, Normal.origin) /\ FoldMatch(2, Normal.origin)
    /\ CityOf(1) = <<"P">>
    /\ orig_code = Some(airports[1].code)
    /\ dest_code = orig_code

\* the elements the points-of-interest provider returned, when its answer
\* is a JSON object with a list of well-formed elements
PoiJson == poi_resp[1].val.json

WellFormedPoi ==
    /\ poi_resp # None
    /\ poi_resp[1].kind = "return"
    /\ PoiJson.kind = "return"
    /\ IsDict(PoiJson.val)
    /\ "elements" \in DOMAIN PoiJson.val
    /\ \A i \in 1..Len(PoiJson.val.elements) :
           PoiJson.val.elements[i] \in WellFormedElements

\* the name of the i-th element: None when it has no tags, no name, or ''
NameAt(l, i) ==
    IF "tags" \in DOMAIN l[i] /\ "name" \in DOMAIN l[i].tags
          /\ l[i].tags.name # ""
    THEN Some(l[i].tags.name)
    ELSE None

\* the places where a name occurs for the first time
FirstOccurrences(l) ==
    {i \in 1..Len(l) : /\ NameAt(l, i) # None
                       /\ \A j \in 1..(i - 1) : NameAt(l, j) # NameAt(l, i)}

\* i is the k-th of the places I
Rank(I, i) == Cardinality({j \in I : j < i}) + 1

\* C8: for every list of elements (with duplicates and unnamed elements) the
\* result of search_restaurants holds no name twice and is the first up-to-3
\* distinct names in provider order.
C8Thm ==
    WellFormedPoi =>
        LET l == PoiJson.val.elements
            I == FirstOccurrences(l)
        IN  /\ Running("synthesize")
            /\ \A a, b \in 1..Len(restaurants) :
                   a # b => restaurants[a] # restaurants[b]
            /\ Len(restaurants) = Min(Cardinality(I), 3)
            /\ \A i \in I :
                   Rank(I, i) <= 3 => restaurants[Rank(I, i)] = NameAt(l, i)[1]

\* a list of five elements with a duplicate and an unnamed element gave the
\* three distinct names in provider order
C8Witness ==
    /\ WellFormedPoi
    /\ Len(PoiJson.val.elements) = 5
    /\ PoiJson.val.elements[1] = Element("n1")
    /\ PoiJson.val.elements[2] = Element("n1")
    /\ PoiJson.val.elements[3] = ElementNoTags
    /\ Cardinality(FirstOccurrences(PoiJson.val.elements)) = 3
    /\ restaurants = <<"n1", "n2", "n3">>

\* a place name is in the table: some record's place name, lowercased,
\* equals it trimmed and lowercased
PlaceKnown(name) == \E i \in 1..Len(airports) : FoldMatch(i, name)

Unresolvable ==
    /\ req # None
    /\ ~PlaceKnown(Normal.origin) \/ ~PlaceKnown(Normal.destination)

\* C6 in every state: with an unresolvable place the run never leaves line
\* 177-182, nothing but the extraction has been called, no prompt is built
\* and nothing is printed
C6State ==
    Unresolvable =>
        /\ pc = "resolve"
        /\ outcome \in {"running", "returned"}
        /\ calls = <<"extract">>
        /\ prompt = None /\ itinerary = None /\ printed = <<>>
        /\ outcome = "returned" =>
               reported \in {Some(Normal.origin), Some(Normal.destination)}

\* C6 in every step: the resolution of an unresolvable place ends the run
\* and reports the place
C6Step ==
    (Unresolvable /\ Running("resolve")) =>
        /\ outcome' = "returned"
        /\ reported' # None
        /\ ~PlaceKnown(reported'[1])

FlightsErrorOrEmpty ==
    \/ flight_resp[1].kind = "raise"
    \/ flight_resp[1].val = None
    \/ flight_resp[1].val = Some(<<>>)

\* C2, as stated: whatever the flight provider answers (an error, no offer,
\* an offer with a missing or malformed field), search_flights returns a
\* sequence, the empty one on an error or an empty result, and the run goes
\* on to the event search.
C2Claim ==
    flight_resp # None =>
        /\ ~(pc = "flights" /\ outcome = "raised")
        /\ pc # "flights"
        /\ FlightsErrorOrEmpty => flights = <<>>

\* the geocoder or the points-of-interest provider failed or answered with
\* something malformed
RestaurantsDegraded ==
    \/ geo_resp[1].kind = "raise"
    \/ geo_resp[1].val = None
    \/ poi_resp # None /\ ~WellFormedPoi

\* C3, as stated: search_restaurants never raises; when geocoding resolves
\* nothing, when the geocoding call fails, and when the points-of-interest
\* request fails or is malformed, the result is the empty sequence and the
\* run goes on to synthesis.
C3Claim ==
    geo_resp # None =>
        /\ ~(pc = "restaurants" /\ outcome = "raised")
        /\ pc # "restaurants"
        /\ RestaurantsDegraded => restaurants = <<>>

\* C4, as stated: each of search_flights, search_events, search_restaurants
\* returns at most 3 entries, also when the provider returns more.
C4Claim ==
    /\ Len(flights) <= FlightsRequested
    /\ Len(events) <= EventsKept
    /\ Len(restaurants) <= RestaurantsKept

\* the stage a run has completed: 1 Received, 2 Parsed, 3 Normalized,
\* 4 Resolved, 5 Aggregated, 6 Synthesized, 7 Presented
StageNo ==
    CASE pc = "parse" -> 1
      [] pc = "normalize" -> 2
      [] pc = "resolve" -> 3
      [] pc \in {"flights", "events", "restaurants"} -> 4
      [] pc = "synthesize" -> 5
      [] pc = "present" -> 6
      [] pc = "end" -> 7

\* a stage is reached only with the stages before it completed
InOrder ==
    /\ StageNo >= 2 => parsed # None
    /\ StageNo >= 3 => req # None
    /\ StageNo >= 4 => orig_code # None /\ dest_code # None
    /\ StageNo >= 5 => flight_resp # None /\ geo_resp # None
    /\ StageNo >= 6 => prompt # None /\ itinerary # None
    /\ StageNo >= 7 => printed # <<>>

\* C5, as stated: a run moves through the stages in order, and ends short of
\* Presented only at extraction, at airport resolution or at synthesis; no
\* outcome of a provider ends it during aggregation.
C5Claim ==
    /\ InOrder
    /\ outcome \in {"raised", "returned"} =>
           pc \in {"parse", "resolve", "synthesize"}

\* C10, as stated: with no event credential and both places resolved,
\* search_events returns the empty sequence without contacting the event
\* provider, the run still reaches synthesis, and the prompt renders "none"
\* for events (and for any other empty sequence).
C10Claim ==
    (Falsy(token) /\ StageNo >= 4) =>
        /\ ~Contains(calls, "events")
        /\ events = <<>>
        /\ outcome = "raised" => pc = "synthesize"
        /\ prompt # None =>
            /\ prompt[1].events = <<"none">>
            /\ flights = <<>> => prompt[1].flights = <<"none">>
            /\ restaurants = <<>> => prompt[1].restaurants = <<"none">>

====
